---- MODULE Spec2Model ----
(***************************************************************************)
(* Preference-comparison reward learning                                   *)
(* (src/src/imitation/algorithms/preference_comparisons.py):               *)
(* RandomFragmenter, SyntheticGatherer, PreferenceDataset,                 *)
(* CrossEntropyRewardTrainer._probability and PreferenceComparisons.train. *)
(*                                                                         *)
(* Numbers.  Returns and return differences are multiples of 1/2 and are   *)
(* held in half units (the integer 2x stands for x).  Probabilities are    *)
(* float32 values held as their IEEE-754 bit patterns; for non-negative    *)
(* floats the order of the bit patterns is the order of the values.        *)
(***************************************************************************)
EXTENDS Integers, Sequences, FiniteSets, TLC

VARIABLES
    cfg,           \* constructor arguments of the components
    dataset,       \* PreferenceDataset: fragments1, fragments2, preferences
    pc,            \* position of PreferenceComparisons.train
    i,             \* loop variable of train
    iterations,    \* argument of train
    trajectories,  \* local of train
    fragments,     \* local of train
    preferences,   \* local of train
    horizon,       \* horizon remembered by the fixed-horizon check
    rng,           \* number of variates drawn from SyntheticGatherer.rng
    calls,         \* history: collaborator calls made by train, in order
    snaps,         \* history: the dataset at the end of every outer iteration
    last           \* history: the last direct call of a component and its outcome

vars == <<cfg, dataset, pc, i, iterations, trajectories, fragments, preferences,
          horizon, rng, calls, snaps, last>>

----------------------------------------------------------------------------
(* Bounds of the model *)

MaxTrajLen == 3
MaxFragLen == 2
MaxDatasetLen == 3
MaxIterations == 2
MaxReward == 20

\* The sizes of a trajectory collection, the values of num_pairs, the numbers
\* of pairs handed to one push, the lengths of the arrays handed to it and
\* the discount factors.
TrajCounts == 0..2
PairCounts == 0..2
PushCounts == 0..2
ArrayLens == 0..3
DiscountFactors == {0, 1, 2}

(* Program constants *)

DefaultThreshold == 50
DefaultWarningThreshold == 10

----------------------------------------------------------------------------
(* Python and numpy helpers *)

Min(a, b) == IF a < b THEN a ELSE b

RECURSIVE SumSeq(_)
SumSeq(s) == IF s = <<>> THEN 0 ELSE Head(s) + SumSeq(Tail(s))

RECURSIVE Pow(_, _)
Pow(b, e) == IF e = 0 THEN 1 ELSE b * Pow(b, e - 1)

\* s[a:b] for 0 <= a, 0 <= b: out-of-range ends are clamped.
PySlice(s, a, b) == SubSeq(s, Min(a, Len(s)) + 1, Min(b, Len(s)))

\* numpy.ndarray: dtype, shape and the elements in row-major order.
NdArray(dtype, shape, data) == [dtype |-> dtype, shape |-> shape, data |-> data]

\* Bit patterns of the float32 values 0.0, 0.5 and 1.0.
F32 == [zero |-> 0, half |-> 1056964608, one |-> 1065353216]

----------------------------------------------------------------------------
(* imitation.data.types.TrajectoryWithRew *)

None == [some |-> FALSE, val |-> <<>>]
Some(v) == [some |-> TRUE, val |-> v]

\* A trajectory with the given rewards; observation t of trajectory id is
\* labelled 10 * id + t, so that a slice shows where it was cut from.
Trajectory(id, rews, terminal, withInfos) ==
    [obs      |-> [t \in 1..(Len(rews) + 1) |-> 10 * id + (t - 1)],
     acts     |-> [t \in 1..Len(rews) |-> 10 * id + (t - 1)],
     infos    |-> IF withInfos THEN Some([t \in 1..Len(rews) |-> 10 * id + (t - 1)])
                  ELSE None,
     rews     |-> rews,
     terminal |-> terminal]

\* len(traj)
TrajLen(traj) == Len(traj.acts)

----------------------------------------------------------------------------
(* PreferenceDataset *)

\* __init__
EmptyDataset == [fragments1 |-> <<>>, fragments2 |-> <<>>,
                 preferences |-> NdArray("float64", <<0>>, <<>>)]

\* np.concatenate of two 1-dimensional arrays: float32 and float64 promote to
\* float64, which holds every float32 value exactly.
Concatenate(a, b) ==
    NdArray(IF a.dtype = "float64" \/ b.dtype = "float64" THEN "float64" ELSE a.dtype,
            <<a.shape[1] + b.shape[1]>>, a.data \o b.data)

\* Variant of Extend: the new samples are put in front of the stored ones.
ExtendInFront(ds, frags, prefs) ==
    [fragments1  |-> [j \in 1..Len(frags) |-> frags[j][1]] \o ds.fragments1,
     fragments2  |-> [j \in 1..Len(frags) |-> frags[j][2]] \o ds.fragments2,
     preferences |-> Concatenate(prefs, ds.preferences)]

\* The assignments of push once its checks have passed.
Extend(ds, frags, prefs) ==
    [fragments1  |-> ds.fragments1 \o [j \in 1..Len(frags) |-> frags[j][1]],
     fragments2  |-> ds.fragments2 \o [j \in 1..Len(frags) |-> frags[j][2]],
     preferences |-> Concatenate(ds.preferences, prefs)]

\* Variant of PushRaises: the dtype of the preferences is not checked.
PushRaisesNoDtype(frags, prefs) ==
    \/ Len(frags) = 0
    \/ prefs.shape # <<Len(frags)>>

\* The condition under which push raises: unpacking zip(*fragments) of no
\* pairs, the shape check and the dtype check.
PushRaises(frags, prefs) ==
    \/ Len(frags) = 0
    \/ prefs.shape # <<Len(frags)>>
    \/ prefs.dtype # "float32"

\* Variant of Push: fragments1 is extended before the checks are made.
PushEarlyExtend(ds, frags, prefs) ==
    IF PushRaises(frags, prefs)
    THEN [raised |-> TRUE,
          ds |-> [ds EXCEPT !.fragments1 =
                               @ \o [j \in 1..Len(frags) |-> frags[j][1]]]]
    ELSE [raised |-> FALSE, ds |-> Extend(ds, frags, prefs)]

\* Variant of Push: the dataset is started afresh by every push.
PushResets(ds, frags, prefs) ==
    IF PushRaises(frags, prefs)
    THEN [raised |-> TRUE, ds |-> ds]
    ELSE [raised |-> FALSE, ds |-> Extend(EmptyDataset, frags, prefs)]

\* push: the outcome (raised or not) and the dataset afterwards.
Push(ds, frags, prefs) ==
    IF PushRaises(frags, prefs)
    THEN [raised |-> TRUE, ds |-> ds]
    ELSE [raised |-> FALSE, ds |-> Extend(ds, frags, prefs)]

\* __len__: the assertion, then len(fragments1).
DatasetLen(ds) ==
    IF Len(ds.fragments1) = Len(ds.fragments2)
       /\ Len(ds.fragments2) = Len(ds.preferences.data)
    THEN [raised |-> FALSE, value |-> Len(ds.fragments1)]
    ELSE [raised |-> TRUE, value |-> 0]

\* __getitem__ for 0 <= idx < len
GetItem(ds, idx) ==
    <<<<ds.fragments1[idx + 1], ds.fragments2[idx + 1]>>, ds.preferences.data[idx + 1]>>

----------------------------------------------------------------------------
(* RandomFragmenter *)

\* Variant of LongEnough: a trajectory of exactly fragment_length is dropped.
StrictlyLonger(trajs, fragment_length) ==
    SelectSeq(trajs, LAMBDA traj : TrajLen(traj) > fragment_length)

\* The filter of __call__: the trajectories that are long enough, in order.
LongEnough(trajs, fragment_length) ==
    SelectSeq(trajs, LAMBDA traj : TrajLen(traj) >= fragment_length)

\* weights = [len(traj) for traj in trajectories]
Weights(trajs) == [k \in 1..Len(trajs) |-> TrajLen(trajs[k])]

\* rng.choices(population, weights, k=1): the indices it can return.
Choices(weights) == {k \in 1..Len(weights) : weights[k] > 0}

\* rng.randint(a, b): the values it can return.
RandInt(a, b) == a..b

\* The outcomes of the two rng calls of one pass of the loop: the index of
\* the chosen trajectory in the filtered list and the start offset.
DrawOutcomes(kept, fragment_length) ==
    UNION {{[traj |-> k, start |-> s] :
                s \in RandInt(0, TrajLen(kept[k]) - fragment_length)} :
           k \in Choices(Weights(kept))}

\* Variant of Fragment: the fragment keeps the terminal flag of its source.
FragmentKeepsTerminal(traj, start, fragment_length) ==
    LET end == start + fragment_length
    IN [obs      |-> PySlice(traj.obs, start, end + 1),
        acts     |-> PySlice(traj.acts, start, end),
        infos    |-> IF traj.infos.some
                     THEN Some(PySlice(traj.infos.val, start, end))
                     ELSE None,
        rews     |-> PySlice(traj.rews, start, end),
        terminal |-> traj.terminal]

\* The body of the loop: the fragment cut from traj at start.
Fragment(traj, start, fragment_length) ==
    LET n == TrajLen(traj)
        end == start + fragment_length
    IN [obs      |-> PySlice(traj.obs, start, end + 1),
        acts     |-> PySlice(traj.acts, start, end),
        infos    |-> IF traj.infos.some
                     THEN Some(PySlice(traj.infos.val, start, end))
                     ELSE None,
        rews     |-> PySlice(traj.rews, start, end),
        terminal |-> (end = n) /\ traj.terminal]

\* Variant of PairUp: the first half of the list is zipped with the second.
PairUpHalves(frs) ==
    [j \in 1..(Len(frs) \div 2) |-> <<frs[j], frs[(Len(frs) \div 2) + j]>>]

\* list(zip(iterator, iterator)) over one iterator of the list
PairUp(frs) == [j \in 1..(Len(frs) \div 2) |-> <<frs[2 * j - 1], frs[2 * j]>>]

\* Variant of Diagnostic: the first test also succeeds when the transitions
\* available equal those needed.
DiagnosticAtMost(weights, fragment_length, num_pairs, warning_threshold) ==
    LET num_transitions == 2 * num_pairs * fragment_length
    IN IF SumSeq(weights) <= num_transitions THEN "advisory"
       ELSE IF warning_threshold # 0
               /\ SumSeq(weights) < warning_threshold * num_transitions
            THEN "escalated"
            ELSE "none"

\* The diagnostic logged before the draws: "advisory" for the message of
\* lines 120-123, "escalated" for that of lines 131-136.
Diagnostic(weights, fragment_length, num_pairs, warning_threshold) ==
    LET num_transitions == 2 * num_pairs * fragment_length
    IN IF SumSeq(weights) < num_transitions THEN "advisory"
       ELSE IF warning_threshold # 0
               /\ SumSeq(weights) < warning_threshold * num_transitions
            THEN "escalated"
            ELSE "none"

\* __call__ when the rng returns draws (one outcome for each pass of the loop).
RandomFragmenter(trajs, fragment_length, num_pairs, warning_threshold, draws) ==
    LET kept == LongEnough(trajs, fragment_length)
        drawn == [d \in 1..(2 * num_pairs) |->
                     Fragment(kept[draws[d].traj], draws[d].start, fragment_length)]
    IN IF Len(kept) = 0
       THEN [raised |-> TRUE, pairs |-> <<>>, drawn |-> <<>>,
             discarded |-> 0, warn |-> "none"]
       ELSE [raised |-> FALSE, pairs |-> PairUp(drawn), drawn |-> drawn,
             discarded |-> Len(trajs) - Len(kept),
             warn |-> Diagnostic(Weights(kept), fragment_length, num_pairs,
                                 warning_threshold)]

\* The draw sequences the rng can produce in one call.
DrawSeqs(trajs, fragment_length, num_pairs) ==
    IF Len(LongEnough(trajs, fragment_length)) = 0 THEN {<<>>}
    ELSE [1..(2 * num_pairs) ->
             DrawOutcomes(LongEnough(trajs, fragment_length), fragment_length)]

----------------------------------------------------------------------------
(* float32 arithmetic on half units *)

\* The quantum of float32 at magnitude a: the least power of two q with
\* a / q < 2^24 = 16777216 (a float32 has 24 significant bits).
RECURSIVE Quantum(_)
Quantum(a) == IF a < 16777216 THEN 1 ELSE 2 * Quantum(a \div 2)

\* Conversion to float32 (and the rounding of a float32 result): round to 24
\* significant bits, ties to even.
ToFloat32(x) ==
    LET a == IF x < 0 THEN -x ELSE x
        q == Quantum(a)
        lo == a - (a % q)
        up == \/ 2 * (a % q) > q
              \/ 2 * (a % q) = q /\ (lo \div q) % 2 = 1
        r == IF up THEN lo + q ELSE lo
    IN IF x < 0 THEN -r ELSE r

\* np.sign
Sign(x) == IF x > 0 THEN 1 ELSE IF x < 0 THEN -1 ELSE 0

\* np.clip / th.clip
Clip(x, lo, hi) == IF x < lo THEN lo ELSE IF x > hi THEN hi ELSE x

\* float32(1 / (1 + exp(x))) for x = h / 2, h = -100..100, as bit patterns:
\* exp, the sum and the quotient are each rounded to float32.
LogisticTable ==
    <<
       1065353216, 1065353216, 1065353216, 1065353216, 1065353216, 1065353216,
       1065353216, 1065353216, 1065353216, 1065353216, 1065353216, 1065353216,
       1065353216, 1065353216, 1065353216, 1065353216, 1065353216, 1065353216,
       1065353216, 1065353216, 1065353216, 1065353216, 1065353216, 1065353216,
       1065353216, 1065353216, 1065353216, 1065353216, 1065353216, 1065353216,
       1065353216, 1065353216, 1065353216, 1065353216, 1065353216, 1065353216,
       1065353216, 1065353216, 1065353216, 1065353216, 1065353216, 1065353216,
       1065353216, 1065353216, 1065353216, 1065353216, 1065353216, 1065353216,
       1065353216, 1065353216, 1065353216, 1065353216, 1065353216, 1065353216,
       1065353216, 1065353216, 1065353216, 1065353216, 1065353216, 1065353216,
       1065353216, 1065353216, 1065353216, 1065353216, 1065353216, 1065353216,
       1065353216, 1065353214, 1065353214, 1065353212, 1065353210, 1065353208,
       1065353202, 1065353192, 1065353178, 1065353154, 1065353112, 1065353046,
       1065352936, 1065352754, 1065352454, 1065351960, 1065351146, 1065349803,
       1065347590, 1065343941, 1065337932, 1065328030, 1065311733, 1065284931,
       1065240929, 1065168886, 1065051457, 1064861438, 1064557542, 1064080527,
       1063353322, 1062292623, 1060841128, 1059019135, 1056964608, 1052855555,
       1049211569, 1044041154, 1039409321, 1033591688, 1027752354, 1022369844,
       1016289233, 1010041492, 1004228532, 998596298, 992086971, 985973585,
       980341660, 974186585, 967823855, 961892099, 956392315, 949810883,
       943614360, 937884786, 931928584, 925496315, 919480846, 913970989,
       907522067, 901251515, 895432236, 889676413, 883178210, 877082778,
       871475931, 865244198, 858902297, 852996469, 847434517, 840872636,
       834699960, 828999414, 822977587, 816566744, 810577286, 805098995,
       798579270, 792331954, 786540863, 780721874, 774244412, 768174143,
       762597820, 756297705, 749978262, 744099678, 738476693, 731934857,
       725786497, 720115448, 714027542, 707638401, 701675271, 696228915,
       689637647, 683413827, 677651240, 671768398, 665311908, 659267078,
       653721616, 647352367, 641055629, 635204587, 629519902, 622998331,
       616874553, 611233323, 605078615, 598711414, 592774898, 587281694,
       580697234, 574497169, 568763398, 562816002, 556380713, 550361601,
       544847338, 538408199, 532134415, 526311219, 520564154, 514063070,
       507964145, 502353062, 496130818, 489785799, 483876190, 478322707,
       471758045, 465581994, 459877355
    >>

\* 1 / (1 + exp(h / 2)) in float32, for -2 * 50 <= h <= 2 * 50.
Logistic(h) == LogisticTable[h + 2 * DefaultThreshold + 1]

\* The float32 with value h / 2, for h in 0..2.
Float32OfHalves(h) == CASE h = 0 -> F32.zero [] h = 1 -> F32.half [] h = 2 -> F32.one

----------------------------------------------------------------------------
(* SyntheticGatherer *)

\* rollout.compute_returns(rews, discount): sum of discount^t * rews[t], t from
\* 0, in half units.
ComputeReturns(rews, discount_factor) ==
    2 * SumSeq([t \in 1..Len(rews) |-> Pow(discount_factor, t - 1) * rews[t]])

\* _reward_sums: the returns of the first and of the second fragments, as
\* float32 arrays.
RewardSums(pairs, discount_factor) ==
    [j \in 1..Len(pairs) |->
        <<ToFloat32(ComputeReturns(pairs[j][1].rews, discount_factor)),
          ToFloat32(ComputeReturns(pairs[j][2].rews, discount_factor))>>]

\* Variant of TemperatureZero: the difference is taken the other way round.
TemperatureZeroSwapped(returns1, returns2) ==
    Float32OfHalves(Sign(ToFloat32(returns2 - returns1)) + 1)

\* (np.sign(returns1 - returns2) + 1) / 2 for one pair
TemperatureZero(returns1, returns2) ==
    Float32OfHalves(Sign(ToFloat32(returns1 - returns2)) + 1)

\* returns /= temperature, for returns that are whole numbers and a
\* temperature of 1 or 2 (the quotient is exact in float32)
DivideByTemperature(returns, temperature) == returns \div temperature

\* The clipped difference and the logistic for one pair, temperature > 0.
GathererProb(returns1, returns2, temperature, threshold) ==
    LET r1 == DivideByTemperature(returns1, temperature)
        r2 == DivideByTemperature(returns2, temperature)
        returns_diff == Clip(ToFloat32(r2 - r1), -2 * threshold, 2 * threshold)
    IN Logistic(returns_diff)

\* rng.binomial(n=1, p=p).astype(np.float32): the values it can return.
Binomial(p) ==
    IF p = F32.one THEN {F32.one}
    ELSE IF p = F32.zero THEN {F32.zero}
    ELSE {F32.zero, F32.one}

\* model_probs (temperature > 0)
ModelProbs(pairs, c) ==
    LET sums == RewardSums(pairs, c.discount_factor)
    IN [j \in 1..Len(pairs) |->
           GathererProb(sums[j][1], sums[j][2], c.temperature, c.threshold)]

\* The arrays rng.binomial can return in one call; <<>> when it is not called.
SampledSeqs(pairs, c) ==
    IF c.temperature # 0 /\ c.sample
    THEN {s \in [1..Len(pairs) -> {F32.zero, F32.one}] :
             \A j \in 1..Len(pairs) : s[j] \in Binomial(ModelProbs(pairs, c)[j])}
    ELSE {<<>>}

\* __call__ with the constructor arguments c, when rng.binomial returns
\* sampled: whether it raised (unpacking zip(*[]) of no pairs), the array
\* returned, whether the entropy was recorded and the number of variates
\* drawn from the rng.
SyntheticGatherer(pairs, c, sampled) ==
    LET sums == RewardSums(pairs, c.discount_factor)
        b == Len(pairs)
    IN IF b = 0
       THEN [raised |-> TRUE, prefs |-> NdArray("float32", <<0>>, <<>>),
             entropy |-> FALSE, consumed |-> 0]
       ELSE IF c.temperature = 0
       THEN [raised |-> FALSE,
             prefs |-> NdArray("float32", <<b>>,
                               [j \in 1..b |-> TemperatureZero(sums[j][1], sums[j][2])]),
             entropy |-> FALSE, consumed |-> 0]
       ELSE IF c.sample
       THEN [raised |-> FALSE, prefs |-> NdArray("float32", <<b>>, sampled),
             entropy |-> TRUE, consumed |-> b]
       ELSE [raised |-> FALSE,
             prefs |-> NdArray("float32", <<b>>, ModelProbs(pairs, c)),
             entropy |-> TRUE, consumed |-> 0]

----------------------------------------------------------------------------
(* CrossEntropyRewardTrainer._probability *)

\* Variant of ReturnsDiff: the rewards are subtracted the other way round.
ReturnsDiffSwapped(rews1, rews2, discount_factor) ==
    ToFloat32(2 * SumSeq([t \in 1..Len(rews1) |->
                             Pow(discount_factor, t - 1) * (rews1[t] - rews2[t])]))

\* returns_diff before clipping, in half units: (rews2 - rews1).sum() for a
\* discount factor of 1, else (discounts * (rews2 - rews1)).sum() with
\* discounts = discount_factor ** arange(len(rews1)).
ReturnsDiff(rews1, rews2, discount_factor) ==
    IF discount_factor = 1
    THEN ToFloat32(2 * SumSeq([t \in 1..Len(rews1) |-> rews2[t] - rews1[t]]))
    ELSE ToFloat32(2 * SumSeq([t \in 1..Len(rews1) |->
                                  Pow(discount_factor, t - 1) * (rews2[t] - rews1[t])]))

\* model_probability: the clipped difference through the logistic.
ModelProbability(rews1, rews2, discount_factor, threshold) ==
    Logistic(Clip(ReturnsDiff(rews1, rews2, discount_factor),
                  -2 * threshold, 2 * threshold))

\* noise_prob * 0.5 + (1 - noise_prob) * model_probability, for a noise_prob
\* of 0 or 1 (both sums are exact in float32).
Smooth(noise_prob, model_probability) ==
    IF noise_prob = 0 THEN model_probability ELSE F32.half

\* _probability
Probability(rews1, rews2, c) ==
    Smooth(c.noise_prob,
           ModelProbability(rews1, rews2, c.trainer_discount, c.trainer_threshold))

----------------------------------------------------------------------------
(* Inputs and configurations *)

\* Reward of step t of trajectory id.
RewardAt(id, t) == ((id + t) % 3) - 1

\* Trajectory k of a collection: n transitions; infos are present for odd k.
TrajAt(k, n, terminal) ==
    Trajectory(k, [t \in 1..n |-> RewardAt(k, t)], terminal, k % 2 = 1)

\* The trajectory collections a caller (or trajectory_generator.sample) supplies.
TrajectorySeqs ==
    UNION {{[k \in 1..m |-> TrajAt(k, sh[k][1], sh[k][2])] :
               sh \in [1..m -> (0..MaxTrajLen) \X BOOLEAN]} :
           m \in TrajCounts}

\* Constructor arguments; each specification varies the ones it is about.
BaseCfg ==
    [fragment_length        |-> 1,
     num_pairs              |-> 1,
     warning_threshold      |-> DefaultWarningThreshold,
     temperature            |-> 1,
     discount_factor        |-> 1,
     sample                 |-> TRUE,
     threshold              |-> DefaultThreshold,
     noise_prob             |-> 0,
     trainer_discount       |-> 1,
     trainer_threshold      |-> DefaultThreshold,
     allow_variable_horizon |-> FALSE,
     preference_gatherer    |-> "SyntheticGatherer",
     sample_steps           |-> 100,
     agent_steps            |-> 100]

NoCall == [op |-> "none"]

\* The state of the variables a component specification does not use.
Idle ==
    /\ dataset = EmptyDataset
    /\ pc = "idle"
    /\ i = 0
    /\ iterations = 0
    /\ trajectories = <<>>
    /\ fragments = <<>>
    /\ preferences = NdArray("float32", <<0>>, <<>>)
    /\ horizon = None
    /\ rng = 0
    /\ calls = <<>>
    /\ snaps = <<>>
    /\ last = NoCall

----------------------------------------------------------------------------
(* Specification of RandomFragmenter: one call on any trajectory collection *)

InitFrag ==
    /\ \E fl \in 1..MaxFragLen, np \in PairCounts,
          wt \in {0, DefaultWarningThreshold} :
          cfg = [BaseCfg EXCEPT !.fragment_length = fl, !.num_pairs = np,
                                !.warning_threshold = wt]
    /\ Idle

FragCall ==
    /\ last.op = "none"
    /\ \E trajs \in TrajectorySeqs :
          \E draws \in DrawSeqs(trajs, cfg.fragment_length, cfg.num_pairs) :
             last' = [op     |-> "fragmenter",
                      trajs  |-> trajs,
                      draws  |-> draws,
                      result |-> RandomFragmenter(trajs, cfg.fragment_length,
                                                  cfg.num_pairs,
                                                  cfg.warning_threshold, draws)]
    /\ UNCHANGED <<cfg, dataset, pc, i, iterations, trajectories, fragments,
                   preferences, horizon, rng, calls, snaps>>

NextFrag == FragCall

SpecFrag == InitFrag /\ [][NextFrag]_vars

----------------------------------------------------------------------------
(* Specification of PreferenceDataset: any sequence of push calls *)

\* The fragments handed to push: the two cuts of length 1 of a terminal
\* trajectory of length 2 (the second one is terminal).
PushFragments == {Fragment(TrajAt(1, 2, TRUE), s, 1) : s \in 0..1}

PushPairs == {<<f1, f2>> \in PushFragments \X PushFragments : f1 # f2}

PushPairSeqs == UNION {[1..k -> PushPairs] : k \in PushCounts}

\* The arrays handed to push: 1- and 2-dimensional, float32 and float64;
\* those of dtype float32 and one dimension hold any of two values.
PushShapes == {<<k>> : k \in ArrayLens} \cup {<<1, 1>>}

Size(shape) == IF Len(shape) = 1 THEN shape[1] ELSE shape[1] * shape[2]

PushArrays ==
    {NdArray(dtype, shape, [j \in 1..Size(shape) |-> F32.half]) :
        <<dtype, shape>> \in {"float32", "float64"} \X PushShapes}
    \cup UNION {{NdArray("float32", <<k>>, data) :
                    data \in [1..k -> {F32.half, F32.one}]} : k \in ArrayLens}

InitDataset ==
    /\ cfg = BaseCfg
    /\ Idle

DatasetPush ==
    /\ \E frags \in PushPairSeqs, prefs \in PushArrays :
          /\ Len(dataset.fragments1) + Len(frags) <= MaxDatasetLen
          /\ dataset' = Push(dataset, frags, prefs).ds
          /\ last' = [op     |-> "push",
                      before |-> dataset,
                      frags  |-> frags,
                      prefs  |-> prefs,
                      raised |-> Push(dataset, frags, prefs).raised]
    /\ UNCHANGED <<cfg, pc, i, iterations, trajectories, fragments,
                   preferences, horizon, rng, calls, snaps>>

NextDataset == DatasetPush

SpecDataset == InitDataset /\ [][NextDataset]_vars

----------------------------------------------------------------------------
(* Claims about PreferenceDataset, checked under SpecDataset *)

\* C3: a successful push of k pairs with k preferences makes the length the
\* previous length plus k, leaves every stored item at its index unchanged and
\* makes item previous_len + j equal to ((fragment1_j, fragment2_j),
\* preference_j) for every j in 0..k-1.
C3_PushAppendsInOrder ==
    (last.op = "push" /\ ~last.raised) =>
        LET prevLen == DatasetLen(last.before).value
            k == Len(last.frags)
        IN /\ DatasetLen(dataset) = [raised |-> FALSE, value |-> prevLen + k]
           /\ \A idx \in 0..(prevLen - 1) :
                 GetItem(dataset, idx) = GetItem(last.before, idx)
           /\ \A j \in 0..(k - 1) :
                 GetItem(dataset, prevLen + j)
                     = <<last.frags[j + 1], last.prefs.data[j + 1]>>

\* A push of two different samples onto a dataset that already holds one.
C3_Witness ==
    /\ last.op = "push"
    /\ ~last.raised
    /\ Len(last.before.fragments1) >= 1
    /\ Len(last.frags) = 2
    /\ last.frags[1] # last.frags[2]
    /\ last.prefs.data[1] # last.prefs.data[2]

\* C4: a push whose preferences do not have shape (len(fragments),) or are not
\* float32 raises and leaves fragments1, fragments2 and preferences as they were.
C4_BadPushRaisesUnchanged ==
    (/\ last.op = "push"
     /\ \/ last.prefs.shape # <<Len(last.frags)>>
        \/ last.prefs.dtype # "float32") =>
        /\ last.raised
        /\ dataset.fragments1 = last.before.fragments1
        /\ dataset.fragments2 = last.before.fragments2
        /\ dataset.preferences = last.before.preferences

\* A push of float64 preferences of the right shape onto a non-empty dataset.
C4_Witness ==
    /\ last.op = "push"
    /\ last.raised
    /\ Len(last.frags) = 2
    /\ last.prefs.shape = <<2>>
    /\ last.prefs.dtype = "float64"
    /\ Len(last.before.fragments1) >= 1

\* C5: in every reachable state the numbers of fragment1 entries, fragment2
\* entries and preference scalars are equal (the assertion of __len__ holds),
\* and no step makes the length smaller.
C5_CountsEqualNeverShrinks ==
    /\ [](~DatasetLen(dataset).raised)
    /\ [][Len(dataset'.fragments1) >= Len(dataset.fragments1)]_vars

\* A raising push after successful ones have filled the dataset.
C5_Witness ==
    /\ last.op = "push"
    /\ last.raised
    /\ Len(dataset.fragments1) = MaxDatasetLen
    /\ Len(dataset.fragments2) = MaxDatasetLen
    /\ Len(dataset.preferences.data) = MaxDatasetLen

----------------------------------------------------------------------------
(* Claims about RandomFragmenter, checked under SpecFrag *)

AllLongEnough(trajs, fragment_length) ==
    \A k \in 1..Len(trajs) : TrajLen(trajs[k]) >= fragment_length

\* The shape of what the fragmenter returns: num_pairs pairs, every fragment
\* with fragment_length actions and rewards and fragment_length + 1
\* observations, pair j made of draws 2j+1 and 2j+2 in that order.
ReturnsPairsOfLength(result, fragment_length, num_pairs) ==
    /\ ~result.raised
    /\ Len(result.pairs) = num_pairs
    /\ Len(result.drawn) = 2 * num_pairs
    /\ \A j \in 1..Len(result.pairs) : \A side \in 1..2 :
          LET f == result.pairs[j][side]
          IN /\ Len(f.acts) = fragment_length
             /\ Len(f.rews) = fragment_length
             /\ Len(f.obs) = fragment_length + 1
    /\ \A j \in 0..(Len(result.pairs) - 1) :
          result.pairs[j + 1] = <<result.drawn[2 * j + 1], result.drawn[2 * j + 2]>>

\* C6 as stated: for every trajectory set in which every trajectory has length
\* >= fragment_length, the fragmenter returns exactly num_pairs pairs of
\* fragments of the right lengths, paired in the order drawn.
C6_AsStated ==
    (last.op = "fragmenter" /\ AllLongEnough(last.trajs, cfg.fragment_length)) =>
        ReturnsPairsOfLength(last.result, cfg.fragment_length, cfg.num_pairs)

\* C6, amended: the same for every non-empty trajectory set (the empty set has
\* no trajectory of length >= fragment_length, and the call raises).
C6_NonEmptyAllLongEnough ==
    (/\ last.op = "fragmenter"
     /\ Len(last.trajs) >= 1
     /\ AllLongEnough(last.trajs, cfg.fragment_length)) =>
        ReturnsPairsOfLength(last.result, cfg.fragment_length, cfg.num_pairs)

\* Two pairs of four different fragments cut from two long-enough trajectories.
C6_Witness ==
    /\ last.op = "fragmenter"
    /\ Len(last.trajs) = 2
    /\ AllLongEnough(last.trajs, cfg.fragment_length)
    /\ cfg.fragment_length = MaxFragLen
    /\ Len(last.result.pairs) = 2
    /\ Cardinality({last.result.drawn[d] : d \in 1..4}) = 4

\* The source trajectory and start offset of draw d of the last call.
SourceOf(d) == LongEnough(last.trajs, cfg.fragment_length)[last.draws[d].traj]
StartOf(d) == last.draws[d].start

\* C7: a fragment's terminal flag is true iff its end index start +
\* fragment_length equals the length of its source trajectory and the source
\* trajectory is terminal.
C7_TerminalIffEndOfTerminalSource ==
    (last.op = "fragmenter" /\ ~last.result.raised) =>
        \A d \in 1..Len(last.result.drawn) :
            last.result.drawn[d].terminal
                <=> (/\ StartOf(d) + cfg.fragment_length = TrajLen(SourceOf(d))
                     /\ SourceOf(d).terminal)

\* One call that cuts a terminal fragment, an interior fragment of a terminal
\* trajectory and a final fragment of a non-terminal trajectory.
C7_Witness ==
    /\ last.op = "fragmenter"
    /\ ~last.result.raised
    /\ \E d \in 1..Len(last.result.drawn) : last.result.drawn[d].terminal
    /\ \E d \in 1..Len(last.result.drawn) :
          /\ SourceOf(d).terminal
          /\ StartOf(d) + cfg.fragment_length < TrajLen(SourceOf(d))
          /\ ~last.result.drawn[d].terminal
    /\ \E d \in 1..Len(last.result.drawn) :
          /\ ~SourceOf(d).terminal
          /\ StartOf(d) + cfg.fragment_length = TrajLen(SourceOf(d))
          /\ ~last.result.drawn[d].terminal

\* f is the slice [start, start + fragment_length) of traj.
IsSliceOf(f, traj, start, fragment_length) ==
    /\ f.acts = [t \in 1..fragment_length |-> traj.acts[start + t]]
    /\ f.rews = [t \in 1..fragment_length |-> traj.rews[start + t]]
    /\ f.obs = [t \in 1..(fragment_length + 1) |-> traj.obs[start + t]]

\* C8: the call raises, having drawn nothing, exactly when no input trajectory
\* has length >= fragment_length; otherwise every returned fragment is the
\* slice [start, start + fragment_length) of one input trajectory of length
\* n >= fragment_length with 0 <= start <= n - fragment_length.
C8_OnlyLongEnoughSources ==
    last.op = "fragmenter" =>
        /\ last.result.raised
              <=> ~\E k \in 1..Len(last.trajs) :
                      TrajLen(last.trajs[k]) >= cfg.fragment_length
        /\ last.result.raised => (last.result.drawn = <<>> /\ last.result.pairs = <<>>)
        /\ \A j \in 1..Len(last.result.pairs) : \A side \in 1..2 :
              \E k \in 1..Len(last.trajs) :
                  /\ TrajLen(last.trajs[k]) >= cfg.fragment_length
                  /\ \E start \in 0..(TrajLen(last.trajs[k]) - cfg.fragment_length) :
                        IsSliceOf(last.result.pairs[j][side], last.trajs[k], start,
                                  cfg.fragment_length)

\* Fragments returned from a collection that also holds a too-short trajectory.
C8_Witness ==
    /\ last.op = "fragmenter"
    /\ ~last.result.raised
    /\ Len(last.result.pairs) >= 1
    /\ last.result.discarded = 1
    /\ \E k \in 1..Len(last.trajs) :
          /\ TrajLen(last.trajs[k]) = cfg.fragment_length
          /\ last.result.pairs[1][1].obs = last.trajs[k].obs

\* S: the transitions of the trajectories of length >= fragment_length.
UsableTransitions(trajs, fragment_length) ==
    SumSeq([k \in 1..Len(trajs) |->
               IF TrajLen(trajs[k]) >= fragment_length THEN TrajLen(trajs[k]) ELSE 0])

\* R = 2 * num_pairs * fragment_length
RequiredTransitions == 2 * cfg.num_pairs * cfg.fragment_length

\* A call with at least one usable trajectory.
HasUsableTrajectory ==
    /\ last.op = "fragmenter"
    /\ \E k \in 1..Len(last.trajs) : TrajLen(last.trajs[k]) >= cfg.fragment_length

\* The advisory diagnostic is emitted if and only if R exceeds S.
AdvisoryIffExceeds ==
    HasUsableTrajectory =>
        (last.result.warn = "advisory" <=>
            RequiredTransitions > UsableTransitions(last.trajs, cfg.fragment_length))

\* Neither diagnostic raises or changes the number of pairs returned.
DiagnosticsOnlyInform ==
    HasUsableTrajectory =>
        /\ ~last.result.raised
        /\ Len(last.result.pairs) = cfg.num_pairs

\* C13 as stated: for a call with at least one usable trajectory the advisory
\* diagnostic is emitted if and only if R exceeds S, the escalated diagnostic
\* is emitted whenever S is smaller than warning_threshold * R, and neither
\* raises an error or changes the number of pairs returned.
C13_AsStated ==
    /\ AdvisoryIffExceeds
    /\ HasUsableTrajectory =>
          (UsableTransitions(last.trajs, cfg.fragment_length)
               < cfg.warning_threshold * RequiredTransitions
           => last.result.warn = "escalated")
    /\ DiagnosticsOnlyInform

\* C13, amended: for a call with at least one usable trajectory the advisory
\* diagnostic is emitted if and only if R exceeds S, the escalated diagnostic
\* is emitted whenever S is smaller than warning_threshold * R and R does not
\* exceed S (the advisory diagnostic takes its place otherwise), and neither
\* raises an error or changes the number of pairs returned.
C13_EscalatedUnlessAdvisory ==
    /\ AdvisoryIffExceeds
    /\ HasUsableTrajectory =>
          ((/\ UsableTransitions(last.trajs, cfg.fragment_length)
                  < cfg.warning_threshold * RequiredTransitions
            /\ RequiredTransitions
                  <= UsableTransitions(last.trajs, cfg.fragment_length))
           => last.result.warn = "escalated")
    /\ DiagnosticsOnlyInform

\* A call that needs exactly the transitions available (S = R = 2) emits the
\* escalated diagnostic and returns its pair.
C13_Witness ==
    /\ HasUsableTrajectory
    /\ cfg.warning_threshold = DefaultWarningThreshold
    /\ RequiredTransitions = 2
    /\ UsableTransitions(last.trajs, cfg.fragment_length) = 2
    /\ last.result.warn = "escalated"
    /\ Len(last.result.pairs) = 1

----------------------------------------------------------------------------
(* Specification of SyntheticGatherer: one call on any sequence of pairs *)

\* The rewards of the fragments handed to the gatherer; the last two have
\* returns that differ by less than float32 resolves.
GatherRews ==
    {<<0, 0>>, <<1, 0>>, <<0, 1>>, <<-MaxReward, 0>>,
     <<Pow(2, 24), 0>>, <<Pow(2, 24), 1>>}

GatherFragments == {Trajectory(1, rews, FALSE, FALSE) : rews \in GatherRews}

GatherPairSeqs ==
    UNION {[1..b -> GatherFragments \X GatherFragments] : b \in PairCounts}

InitGather ==
    /\ \E t \in {0, 1, 2}, s \in BOOLEAN, d \in DiscountFactors, th \in {1, DefaultThreshold} :
          cfg = [BaseCfg EXCEPT !.temperature = t, !.sample = s,
                                !.discount_factor = d, !.threshold = th]
    /\ Idle

GatherCall ==
    /\ last.op = "none"
    /\ \E pairs \in GatherPairSeqs :
          \E sampled \in SampledSeqs(pairs, cfg) :
             LET result == SyntheticGatherer(pairs, cfg, sampled)
             IN /\ rng' = rng + result.consumed
                /\ last' = [op         |-> "gatherer",
                            pairs      |-> pairs,
                            rng_before |-> rng,
                            result     |-> result]
    /\ UNCHANGED <<cfg, dataset, pc, i, iterations, trajectories, fragments,
                   preferences, horizon, calls, snaps>>

NextGather == GatherCall

SpecGather == InitGather /\ [][NextGather]_vars

----------------------------------------------------------------------------
(* Claims about SyntheticGatherer, checked under SpecGather *)

ProbabilitiesReturned ==
    last.op = "gatherer" /\ cfg.temperature > 0 /\ ~cfg.sample /\ ~last.result.raised

\* return1 - return2 of pair j of the last call, the returns being the float32
\* values of _reward_sums (half units).
ReturnGap(j) ==
    LET returns == RewardSums(last.pairs, cfg.discount_factor)[j]
    IN returns[1] - returns[2]

\* The probabilities are monotonically increasing in return1 - return2.
C11_Monotone ==
    ProbabilitiesReturned =>
        \A a, b \in 1..Len(last.pairs) :
            ReturnGap(a) <= ReturnGap(b) =>
                last.result.prefs.data[a] <= last.result.prefs.data[b]

\* Every probability is the logistic of a difference within
\* [-threshold, threshold].
C11_Clipped ==
    ProbabilitiesReturned =>
        \A j \in 1..Len(last.pairs) :
            /\ last.result.prefs.data[j] >= Logistic(2 * cfg.threshold)
            /\ last.result.prefs.data[j] <= Logistic(-2 * cfg.threshold)

\* Every probability lies strictly between 0 and 1.
C11_StrictlyInside ==
    ProbabilitiesReturned =>
        \A j \in 1..Len(last.pairs) :
            /\ last.result.prefs.data[j] > F32.zero
            /\ last.result.prefs.data[j] < F32.one

\* C11: with sample = False and temperature > 0 the probabilities returned
\* are monotonically increasing in return1 - return2, every one of them lies
\* strictly within (0, 1), and the difference (return2 - return1) / temperature
\* is clipped to [-threshold, threshold] before the logistic is applied.
\* The float32 computation returns exactly 1.0 once return1 - return2 reaches
\* 17 * temperature: 1 + exp(-17) rounds to 1.
C11_AsStated == C11_Monotone /\ C11_Clipped /\ C11_StrictlyInside

----------------------------------------------------------------------------
(* Specification of CrossEntropyRewardTrainer._probability: one call on any
   two reward vectors of equal length *)

\* The rewards the reward model predicts for the steps of a fragment.
PredictedRewards == {-MaxReward, 0, 1}

RewardVectorPairs ==
    UNION {[1..n -> PredictedRewards] \X [1..n -> PredictedRewards] :
           n \in 1..MaxFragLen}

InitProb ==
    /\ \E d \in DiscountFactors, th \in {1, DefaultThreshold}, np \in {0, 1} :
          cfg = [BaseCfg EXCEPT !.trainer_discount = d, !.trainer_threshold = th,
                                !.noise_prob = np]
    /\ Idle

ProbabilityCall ==
    /\ last.op = "none"
    /\ \E rr \in RewardVectorPairs :
          last' = [op                |-> "probability",
                   rews1             |-> rr[1],
                   rews2             |-> rr[2],
                   model_probability |->
                       ModelProbability(rr[1], rr[2], cfg.trainer_discount,
                                        cfg.trainer_threshold),
                   result            |-> Probability(rr[1], rr[2], cfg)]
    /\ UNCHANGED <<cfg, dataset, pc, i, iterations, trajectories, fragments,
                   preferences, horizon, rng, calls, snaps>>

NextProb == ProbabilityCall

SpecProb == InitProb /\ [][NextProb]_vars

----------------------------------------------------------------------------
(* Claims about CrossEntropyRewardTrainer, checked under SpecProb *)

\* The discounted return of predicted rewards, in half units, as float32.
PredictedReturn(rews) == ToFloat32(ComputeReturns(rews, cfg.trainer_discount))

\* C10 as stated: the model probability that fragment1 is preferred, before
\* label-noise smoothing, equals
\* 1 / (1 + exp(clip(return1 - return2, -threshold, threshold))).
C10_AsStated ==
    last.op = "probability" =>
        last.model_probability
            = Logistic(Clip(PredictedReturn(last.rews1) - PredictedReturn(last.rews2),
                            -2 * cfg.trainer_threshold, 2 * cfg.trainer_threshold))

\* C10, amended: the model probability that fragment1 is preferred, before
\* label-noise smoothing, equals
\* 1 / (1 + exp(clip(return2 - return1, -threshold, threshold))).
C10_Return2MinusReturn1 ==
    last.op = "probability" =>
        last.model_probability
            = Logistic(Clip(PredictedReturn(last.rews2) - PredictedReturn(last.rews1),
                            -2 * cfg.trainer_threshold, 2 * cfg.trainer_threshold))

\* A discounted call in which fragment1 has the larger return, inside the
\* clipping range, so that it is preferred with probability above 0.5.
C10_Witness ==
    /\ last.op = "probability"
    /\ cfg.trainer_discount = 2
    /\ cfg.trainer_threshold = DefaultThreshold
    /\ Len(last.rews1) = 2
    /\ PredictedReturn(last.rews1) - PredictedReturn(last.rews2) = 2 * 2
    /\ last.model_probability > F32.half
    /\ last.model_probability < F32.one

----------------------------------------------------------------------------
(* CrossEntropyRewardTrainer.train: one call on a dataset of N >= 1 samples *)

DefaultBatchSize == 32
DefaultEpochs == 1

\* The values of batch_size and epochs the trainer is constructed with.
BatchSizes == {1, 2, DefaultBatchSize}
EpochCounts == {0, DefaultEpochs, 2}

\* A dataset of n samples, all different.
DatasetOfSize(n) ==
    Push(EmptyDataset,
         [j \in 1..n |-> <<Trajectory(j, <<RewardAt(j, 0)>>, FALSE, FALSE),
                           Trajectory(j + 1, <<RewardAt(j + 1, 0)>>, FALSE, FALSE)>>],
         NdArray("float32", <<n>>, [j \in 1..n |-> Float32OfHalves(j % 3)])).ds

\* RandomSampler(dataset, replacement=True, num_samples=None): the number of
\* indices one pass over the sampler yields is len(dataset).
NumSamples(ds) == DatasetLen(ds).value

\* Variant of NextBatchLen: an incomplete last batch is dropped.
NextBatchLenDropLast(remaining, batch_size) ==
    IF remaining >= batch_size THEN batch_size ELSE 0

\* DataLoader(batch_size=...): the size of the next mini-batch when the
\* sampler has remaining indices to yield in this pass (0: the pass is over).
NextBatchLen(remaining, batch_size) == Min(remaining, batch_size)

\* The index sequences the sampler can yield for a batch of n: any indices
\* of the dataset, with replacement.
SampledIndices(ds, n) == [1..n -> 0..(NumSamples(ds) - 1)]

\* preference_collate_fn on the items at the indices idx
PreferenceCollateFn(ds, idx) ==
    [fragment_pairs |-> [k \in 1..Len(idx) |-> GetItem(ds, idx[k])[1]],
     preferences    |-> [k \in 1..Len(idx) |-> GetItem(ds, idx[k])[2]]]

\* An operation of the loop body: the epoch and the number, within the epoch,
\* of the mini-batch it is applied to.
BatchCall(op) == [op |-> op, ep |-> last.ep, batch |-> Len(last.drawn)]

InitTrainer ==
    /\ \E b \in BatchSizes, e \in EpochCounts :
          cfg = [batch_size |-> b, epochs |-> e] @@ BaseCfg
    /\ \E n \in 1..MaxDatasetLen : dataset = DatasetOfSize(n)
    /\ pc = "idle"
    /\ i = 0
    /\ iterations = 0
    /\ trajectories = <<>>
    /\ fragments = <<>>
    /\ preferences = NdArray("float32", <<0>>, <<>>)
    /\ horizon = None
    /\ rng = 0
    /\ calls = <<>>
    /\ snaps = <<>>
    /\ last = NoCall

\* train(dataset): the data loader is built.
TrainerTrain ==
    /\ pc = "idle"
    /\ last.op = "none"
    /\ last' = [op        |-> "train",
                before    |-> dataset,
                ep        |-> 0,
                remaining |-> 0,
                drawn     |-> <<>>,
                batch     |-> PreferenceCollateFn(dataset, <<>>)]
    /\ pc' = "epoch"
    /\ UNCHANGED <<cfg, dataset, i, iterations, trajectories, fragments,
                   preferences, horizon, rng, calls, snaps>>

\* for ep in range(self.epochs): a new pass over the data loader starts.
EpochNext ==
    /\ pc = "epoch"
    /\ last.ep < cfg.epochs
    /\ last' = [last EXCEPT !.remaining = NumSamples(dataset), !.drawn = <<>>]
    /\ pc' = "fetch"
    /\ UNCHANGED <<cfg, dataset, i, iterations, trajectories, fragments,
                   preferences, horizon, rng, calls, snaps>>

\* The epochs are over: train returns.
TrainerReturn ==
    /\ pc = "epoch"
    /\ last.ep = cfg.epochs
    /\ pc' = "returned"
    /\ UNCHANGED <<cfg, dataset, i, iterations, trajectories, fragments,
                   preferences, horizon, rng, calls, snaps, last>>

\* for fragment_pairs, preferences in dataloader: the next mini-batch.
FetchBatch ==
    /\ pc = "fetch"
    /\ LET n == NextBatchLen(last.remaining, cfg.batch_size)
       IN /\ n > 0
          /\ \E idx \in SampledIndices(dataset, n) :
                last' = [last EXCEPT !.remaining = @ - n,
                                     !.drawn = Append(@, idx),
                                     !.batch = PreferenceCollateFn(dataset, idx)]
    /\ pc' = "zero_grad"
    /\ UNCHANGED <<cfg, dataset, i, iterations, trajectories, fragments,
                   preferences, horizon, rng, calls, snaps>>

\* The data loader is exhausted: the epoch is over.
EpochEnd ==
    /\ pc = "fetch"
    /\ NextBatchLen(last.remaining, cfg.batch_size) = 0
    /\ last' = [last EXCEPT !.ep = @ + 1]
    /\ pc' = "epoch"
    /\ UNCHANGED <<cfg, dataset, i, iterations, trajectories, fragments,
                   preferences, horizon, rng, calls, snaps>>

\* self.optim.zero_grad()
ZeroGrad ==
    /\ pc = "zero_grad"
    /\ calls' = Append(calls, BatchCall("optim.zero_grad"))
    /\ pc' = "loss"
    /\ UNCHANGED <<cfg, dataset, i, iterations, trajectories, fragments,
                   preferences, horizon, rng, snaps, last>>

\* loss = self._loss(fragment_pairs, preferences)
Loss ==
    /\ pc = "loss"
    /\ calls' = Append(calls, BatchCall("_loss"))
    /\ pc' = "backward"
    /\ UNCHANGED <<cfg, dataset, i, iterations, trajectories, fragments,
                   preferences, horizon, rng, snaps, last>>

\* loss.backward()
Backward ==
    /\ pc = "backward"
    /\ calls' = Append(calls, BatchCall("loss.backward"))
    /\ pc' = "step"
    /\ UNCHANGED <<cfg, dataset, i, iterations, trajectories, fragments,
                   preferences, horizon, rng, snaps, last>>

\* self.optim.step()
OptimStep ==
    /\ pc = "step"
    /\ calls' = Append(calls, BatchCall("optim.step"))
    /\ pc' = "record"
    /\ UNCHANGED <<cfg, dataset, i, iterations, trajectories, fragments,
                   preferences, horizon, rng, snaps, last>>

\* self.logger.record("loss", loss.item())
RecordLoss ==
    /\ pc = "record"
    /\ calls' = Append(calls, BatchCall("logger.record"))
    /\ pc' = "fetch"
    /\ UNCHANGED <<cfg, dataset, i, iterations, trajectories, fragments,
                   preferences, horizon, rng, snaps, last>>

NextTrainer ==
    \/ TrainerTrain
    \/ EpochNext
    \/ TrainerReturn
    \/ FetchBatch
    \/ EpochEnd
    \/ ZeroGrad
    \/ Loss
    \/ Backward
    \/ OptimStep
    \/ RecordLoss

SpecTrainer == InitTrainer /\ [][NextTrainer]_vars

----------------------------------------------------------------------------
(* Claim about CrossEntropyRewardTrainer.train, checked under SpecTrainer *)

\* ceil(n / batch_size)
CeilDiv(n, batch_size) == (n + batch_size - 1) \div batch_size

\* The operations of the loop body, in the order of the source.
BatchOps ==
    <<"optim.zero_grad", "_loss", "loss.backward", "optim.step", "logger.record">>

\* The positions in calls of the operation op made in epoch ep.
CallsOf(op, ep) == {k \in 1..Len(calls) : calls[k].op = op /\ calls[k].ep = ep}

\* The number of indices in the batches bs.
TotalLen(bs) == SumSeq([k \in 1..Len(bs) |-> Len(bs[k])])

----------------------------------------------------------------------------
(* PreferenceComparisons *)

\* __init__: agent_steps defaults to sample_steps when it is None.
AgentSteps(agent_steps, sample_steps) ==
    IF agent_steps.some THEN agent_steps.val ELSE sample_steps

\* The constructor arguments <<num_pairs, temperature, agent_steps>>: any
\* number of pairs with a zero temperature, and one pair with the default
\* temperature, agent_steps being left out (None) or given as 0.
TrainCfgs ==
    {<<np, 0, None, "SyntheticGatherer">> : np \in PairCounts}
        \cup {<<1, 1, None, "SyntheticGatherer">>, <<1, 1, Some(0), "SyntheticGatherer">>,
              <<1, 1, None, "custom">>}

\* The state after construction: the dataset is empty, train has not run.
Init ==
    /\ \E c \in TrainCfgs, avh \in BOOLEAN :
          cfg = [BaseCfg EXCEPT !.fragment_length = MaxFragLen,
                                !.num_pairs = c[1],
                                !.temperature = c[2],
                                !.allow_variable_horizon = avh,
                                !.preference_gatherer = c[4],
                                !.agent_steps = AgentSteps(c[3], BaseCfg.sample_steps)]
    /\ Idle

\* What trajectory_generator.sample returns: nothing, one episode that is too
\* short, one of exactly fragment_length, one of the longest length, or two
\* episodes of different lengths.
TrainSamples ==
    {<<>>,
     <<TrajAt(1, cfg.fragment_length - 1, TRUE)>>,
     <<TrajAt(1, cfg.fragment_length, TRUE)>>,
     <<TrajAt(1, MaxTrajLen, TRUE)>>,
     <<TrajAt(1, cfg.fragment_length, TRUE), TrajAt(2, cfg.fragment_length - 1, TRUE)>>}

\* _check_fixed_horizon of the base class: unless variable horizons are
\* allowed, it raises when the trajectories seen so far differ in length, and
\* remembers the length.
CheckFixedHorizon(h, trajs, allow_variable_horizon) ==
    LET lens == {TrajLen(trajs[k]) : k \in 1..Len(trajs)}
                \cup (IF h.some THEN {h.val} ELSE {})
    IN IF allow_variable_horizon \/ lens = {}
       THEN [raised |-> FALSE, horizon |-> h]
       ELSE IF Cardinality(lens) > 1
       THEN [raised |-> TRUE, horizon |-> h]
       ELSE [raised |-> FALSE, horizon |-> Some(CHOOSE n \in lens : TRUE)]

\* Variant of TrainerInput: the reward trainer is given the new samples only.
TrainerInputNewOnly(ds, frags, prefs) == Extend(EmptyDataset, frags, prefs)

\* The argument of reward_trainer.train: self.dataset.
TrainerInput(ds, frags, prefs) == ds

Call(op, arg) == [op |-> op, iter |-> i, arg |-> arg]

\* What a preference gatherer supplied by the caller can return for b pairs:
\* an array of the right shape, of dtype float32 or (as np.array makes of
\* Python floats) float64.
CustomGatherer(pairs) ==
    {[raised |-> FALSE, prefs |-> NdArray(dtype, <<Len(pairs)>>,
                                          [j \in 1..Len(pairs) |-> F32.half]),
      entropy |-> FALSE, consumed |-> 0] : dtype \in {"float32", "float64"}}

\* self.preference_gatherer(fragments): the results the call can have.
PreferenceGatherer(pairs, c) ==
    IF c.preference_gatherer = "SyntheticGatherer"
    THEN {SyntheticGatherer(pairs, c, sampled) : sampled \in SampledSeqs(pairs, c)}
    ELSE CustomGatherer(pairs)

\* The error raised by the step op of the loop body, with the iteration it
\* was raised in and the number of iterations completed before.
Raised(op) == [op |-> "raise", step |-> op, iter |-> i, done |-> Len(snaps)]

\* Variant of AfterStep: the error is swallowed and the loop body goes on.
AfterStepSwallows(raised, next) == next

\* The loop body has no try: an error raised by a step leaves train, and
\* otherwise the next statement runs.
AfterStep(raised, next) == IF raised THEN "raised" ELSE next

\* train(iterations)
TrainCall ==
    /\ pc = "idle"
    /\ Len(snaps) < MaxIterations
    /\ \E n \in 0..(MaxIterations - Len(snaps)) : iterations' = n
    /\ i' = 0
    /\ pc' = "for"
    /\ UNCHANGED <<cfg, dataset, trajectories, fragments, preferences, horizon,
                   rng, calls, snaps, last>>

\* for i in range(iterations): the next pass, or the return of train.
ForNext ==
    /\ pc = "for"
    /\ i < iterations
    /\ pc' = "sample"
    /\ UNCHANGED <<cfg, dataset, i, iterations, trajectories, fragments,
                   preferences, horizon, rng, calls, snaps, last>>

ForDone ==
    /\ pc = "for"
    /\ i >= iterations
    /\ pc' = "idle"
    /\ trajectories' = <<>>
    /\ fragments' = <<>>
    /\ preferences' = NdArray("float32", <<0>>, <<>>)
    /\ UNCHANGED <<cfg, dataset, i, iterations, horizon, rng, calls, snaps, last>>

\* trajectories = self.trajectory_generator.sample(self.sample_steps)
Sample ==
    /\ pc = "sample"
    /\ trajectories' \in TrainSamples
    /\ calls' = Append(calls, Call("sample", cfg.sample_steps))
    /\ pc' = "check"
    /\ UNCHANGED <<cfg, dataset, i, iterations, fragments, preferences, horizon,
                   rng, snaps, last>>

\* self._check_fixed_horizon(trajectories)
CheckHorizon ==
    /\ pc = "check"
    /\ LET r == CheckFixedHorizon(horizon, trajectories, cfg.allow_variable_horizon)
       IN /\ horizon' = r.horizon
          /\ pc' = AfterStep(r.raised, "fragment")
          /\ last' = IF r.raised THEN Raised("check_fixed_horizon") ELSE last
    /\ calls' = Append(calls, Call("check_fixed_horizon", Len(trajectories)))
    /\ UNCHANGED <<cfg, dataset, i, iterations, trajectories, fragments,
                   preferences, rng, snaps>>

\* fragments = self.fragmenter(trajectories)
Fragmenter ==
    /\ pc = "fragment"
    /\ \E draws \in DrawSeqs(trajectories, cfg.fragment_length, cfg.num_pairs) :
          LET r == RandomFragmenter(trajectories, cfg.fragment_length, cfg.num_pairs,
                                    cfg.warning_threshold, draws)
          IN /\ fragments' = IF r.raised THEN fragments ELSE r.pairs
             /\ pc' = AfterStep(r.raised, "gather")
             /\ last' = IF r.raised THEN Raised("fragmenter") ELSE last
    /\ calls' = Append(calls, Call("fragmenter", Len(trajectories)))
    /\ UNCHANGED <<cfg, dataset, i, iterations, trajectories, preferences, horizon,
                   rng, snaps>>

\* preferences = self.preference_gatherer(fragments)
Gatherer ==
    /\ pc = "gather"
    /\ \E r \in PreferenceGatherer(fragments, cfg) :
          /\ preferences' = IF r.raised THEN preferences ELSE r.prefs
          /\ rng' = rng + r.consumed
          /\ pc' = AfterStep(r.raised, "push")
          /\ last' = IF r.raised THEN Raised("preference_gatherer") ELSE last
    /\ calls' = Append(calls, Call("preference_gatherer", Len(fragments)))
    /\ UNCHANGED <<cfg, dataset, i, iterations, trajectories, fragments, horizon,
                   snaps>>

\* self.dataset.push(fragments, preferences), then len(self.dataset) for the log
PushStep ==
    /\ pc = "push"
    /\ LET r == Push(dataset, fragments, preferences)
       IN /\ dataset' = r.ds
          /\ pc' = AfterStep(r.raised \/ DatasetLen(r.ds).raised, "reward_train")
          /\ last' = IF r.raised \/ DatasetLen(r.ds).raised THEN Raised("push")
                     ELSE last
    /\ calls' = Append(calls, Call("push", [frags |-> fragments, prefs |-> preferences]))
    /\ UNCHANGED <<cfg, i, iterations, trajectories, fragments, preferences,
                   horizon, rng, snaps>>

\* self.reward_trainer.train(self.dataset)
RewardTrain ==
    /\ pc = "reward_train"
    /\ calls' = Append(calls, Call("reward_trainer.train",
                                   TrainerInput(dataset, fragments, preferences)))
    /\ pc' = "agent_train"
    /\ UNCHANGED <<cfg, dataset, i, iterations, trajectories, fragments,
                   preferences, horizon, rng, snaps, last>>

\* self.trajectory_generator.train(steps=self.agent_steps)
AgentTrain ==
    /\ pc = "agent_train"
    /\ calls' = Append(calls, Call("trajectory_generator.train", cfg.agent_steps))
    /\ pc' = "dump"
    /\ UNCHANGED <<cfg, dataset, i, iterations, trajectories, fragments,
                   preferences, horizon, rng, snaps, last>>

\* self.logger.dump(i): the end of the pass
Dump ==
    /\ pc = "dump"
    /\ calls' = Append(calls, Call("dump", i))
    /\ snaps' = Append(snaps, dataset)
    /\ i' = i + 1
    /\ pc' = "for"
    /\ UNCHANGED <<cfg, dataset, iterations, trajectories, fragments, preferences,
                   horizon, rng, last>>

Next ==
    \/ TrainCall
    \/ ForNext
    \/ ForDone
    \/ Sample
    \/ CheckHorizon
    \/ Fragmenter
    \/ Gatherer
    \/ PushStep
    \/ RewardTrain
    \/ AgentTrain
    \/ Dump

Spec == Init /\ [][Next]_vars

----------------------------------------------------------------------------
(* Claims about PreferenceComparisons.train, checked under Spec *)

\* The first n items of dataset a are the first n items of dataset b.
SamePrefix(a, b, n) == \A idx \in 0..(n - 1) : GetItem(a, idx) = GetItem(b, idx)

\* The dataset at the end of outer iteration k (k = 0: after construction).
SnapAt(k) == IF k = 0 THEN EmptyDataset ELSE snaps[k]

\* C1: the dataset is created empty in the constructor and never reset: after
\* the k-th outer iteration since construction completes, len(dataset) is
\* k * num_pairs, and its first (k-1) * num_pairs samples are the samples
\* present after iteration k-1, in the same order.
C1_DatasetGrowsByNumPairs ==
    /\ \A k \in 1..Len(snaps) :
          /\ DatasetLen(snaps[k]) = [raised |-> FALSE, value |-> k * cfg.num_pairs]
          /\ SamePrefix(snaps[k], SnapAt(k - 1), (k - 1) * cfg.num_pairs)
    /\ SamePrefix(dataset, SnapAt(Len(snaps)), Len(snaps) * cfg.num_pairs)
    /\ Len(dataset.fragments1) >= Len(snaps) * cfg.num_pairs

\* Two completed iterations of two pairs each, the second adding samples that
\* differ from those of the first.
C1_Witness ==
    /\ Len(snaps) = 2
    /\ cfg.num_pairs = 2
    /\ Len(snaps[2].fragments1) = 4
    /\ GetItem(snaps[2], 0) # GetItem(snaps[2], 2)
    /\ GetItem(snaps[2], 0) # GetItem(snaps[2], 1)

\* The steps of one outer iteration, in the order of the claim.
StepOrder ==
    <<"sample", "check_fixed_horizon", "fragmenter", "preference_gatherer", "push",
      "reward_trainer.train", "trajectory_generator.train", "dump">>

\* C2: every outer iteration makes its calls in the order sample(sample_steps),
\* fixed-horizon check, fragmenter, gatherer, push, reward_trainer.train,
\* trajectory_generator.train(agent_steps), dump(i), and the dataset handed to
\* reward_trainer.train is the whole accumulated dataset: the samples of the
\* earlier iterations followed by the pairs pushed in this one.
C2_StepsInOrderOnWholeDataset ==
    \A p \in 1..Len(calls) :
        LET step == ((p - 1) % Len(StepOrder)) + 1
            done == (p - 1) \div Len(StepOrder)
            c == calls[p]
        IN /\ c.op = StepOrder[step]
           /\ c.iter = calls[p - step + 1].iter
           /\ c.op = "sample" => c.arg = cfg.sample_steps
           /\ c.op = "trajectory_generator.train" => c.arg = cfg.agent_steps
           /\ c.op = "dump" => c.arg = c.iter
           /\ c.op = "reward_trainer.train" =>
                 LET pushed == calls[p - 1].arg
                     before == SnapAt(done)
                 IN /\ Len(pushed.frags) = cfg.num_pairs
                    /\ c.arg.fragments1
                         = before.fragments1
                           \o [j \in 1..Len(pushed.frags) |-> pushed.frags[j][1]]
                    /\ c.arg.fragments2
                         = before.fragments2
                           \o [j \in 1..Len(pushed.frags) |-> pushed.frags[j][2]]
                    /\ c.arg.preferences.data
                         = before.preferences.data \o pushed.prefs.data

\* The reward trainer is called in a second iteration, on four samples.
C2_Witness ==
    /\ Len(calls) = 2 * Len(StepOrder)
    /\ cfg.num_pairs = 2
    /\ Len(calls[Len(StepOrder) + 6].arg.fragments1) = 4
    /\ calls[Len(StepOrder) + 6].arg.fragments1[1] # calls[Len(StepOrder) + 6].arg.fragments1[3]

\* The steps of the loop body that the claim C14 names as raising.
RaisingSteps == {"check_fixed_horizon", "fragmenter", "preference_gatherer", "push"}

\* The calls made since outer iteration number done + 1 (counted from
\* construction) started.
CallsSince(done) ==
    {p \in 1..Len(calls) : p > Len(StepOrder) * done}

\* C14: when the fixed-horizon check, the fragmenter, the preference gatherer
\* or dataset.push raises during the k-th outer iteration, the error leaves
\* train: the raising step is the last call made, iteration k calls neither
\* reward_trainer.train nor trajectory_generator.train nor dump, no later
\* iteration starts, and the dataset holds exactly the (k-1) * num_pairs
\* samples of the earlier iterations.
C14_ErrorLeavesTrain ==
    last.op = "raise" =>
        /\ last.step \in RaisingSteps
        /\ pc = "raised"
        /\ Len(snaps) = last.done
        /\ calls[Len(calls)].op = last.step
        /\ calls[Len(calls)].iter = last.iter
        /\ \A p \in CallsSince(last.done) :
              /\ calls[p].iter = last.iter
              /\ calls[p].op \notin
                    {"reward_trainer.train", "trajectory_generator.train", "dump"}
        /\ Cardinality({p \in CallsSince(last.done) : calls[p].op = "sample"}) = 1
        /\ DatasetLen(dataset) = [raised |-> FALSE, value |-> last.done * cfg.num_pairs]
        /\ dataset = SnapAt(last.done)

\* dataset.push raises in the second iteration, on the float64 array of a
\* gatherer of the caller's: the dataset keeps the one sample of the first.
C14_Witness ==
    /\ last.op = "raise"
    /\ last.step = "push"
    /\ last.done = 1
    /\ last.iter = 1
    /\ preferences.dtype = "float64"
    /\ Len(dataset.fragments1) = 1

====
